---------------------------- MODULE Spec2Model ----------------------------
(***************************************************************************)
(* A state-machine model of the shuttle tracker's updater                  *)
(* (src/updater/updater.go): the periodic driver Run, the update cycle,    *)
(* the per-record goroutines running handleVehicleData, the route guess,   *)
(* the timestamp reconstruction and the lock-guarded last response.        *)
(*                                                                         *)
(* Strings are sequences of one-character strings.  Instants are pairs     *)
(* <<day, second of day>>, the day counted from 0000-01-01 in the          *)
(* proleptic Gregorian calendar (all instants are taken in UTC).           *)
(* Coordinates are integers in units of 0.001 degree.                      *)
(***************************************************************************)
EXTENDS Integers, Sequences, FiniteSets, TLC

(***************************************************************************)
(* Strings                                                                 *)
(***************************************************************************)
Digits == <<"0", "1", "2", "3", "4", "5", "6", "7", "8", "9">>

IsDigit(c) == \E k \in 1..10 : Digits[k] = c

DigitVal(c) == (CHOOSE k \in 1..10 : Digits[k] = c) - 1

\* The decimal value of a non-empty sequence of digit characters.
RECURSIVE Atoi(_)
Atoi(s) == IF s = <<>> THEN 0
           ELSE 10 * Atoi(SubSeq(s, 1, Len(s) - 1)) + DigitVal(s[Len(s)])

AllDigits(s) == \A k \in 1..Len(s) : IsDigit(s[k])

\* s[from+1 .. ] : Go's s[from:]
Suffix(s, from) == SubSeq(s, from + 1, Len(s))

\* s[ .. to] : Go's s[:to]
Prefix(s, to) == SubSeq(s, 1, to)

HasPrefix(s, p) == Len(s) >= Len(p) /\ Prefix(s, Len(p)) = p

RECURSIVE Zeros(_)
Zeros(n) == IF n <= 0 THEN <<>> ELSE <<"0">> \o Zeros(n - 1)

TimeLabel == <<"t", "i", "m", "e", ":">>
DateLabel == <<"d", "a", "t", "e", ":">>

(***************************************************************************)
(* Calendar arithmetic (Go's package time, as used by the updater)         *)
(***************************************************************************)
IsLeap(y) == (y % 4 = 0) /\ ((y % 100 # 0) \/ (y % 400 = 0))

DaysIn(m, y) == IF m = 2 THEN (IF IsLeap(y) THEN 29 ELSE 28)
                ELSE IF m \in {4, 6, 9, 11} THEN 30 ELSE 31

RECURSIVE DaysBeforeMonth(_, _)
DaysBeforeMonth(m, y) == IF m <= 1 THEN 0
                         ELSE DaysBeforeMonth(m - 1, y) + DaysIn(m - 1, y)

\* The number of leap years among the years 0 .. y-1.
LeapsBefore(y) == IF y = 0 THEN 0
                  ELSE ((y - 1) \div 4) - ((y - 1) \div 100) + ((y - 1) \div 400) + 1

\* The day number of the civil date y-m-d (a valid date), 0000-01-01 being day 0.
DayNumber(y, m, d) == 365 * y + LeapsBefore(y) + DaysBeforeMonth(m, y) + (d - 1)

SecondsPerDay == 24 * 3600

\* The instant of a civil date and time (month and day may be out of range,
\* as time.Date normalises them: month 0 is December of the year before, day
\* 31 of a 30-day month is the first of the next month).
RECURSIVE DateInstant(_, _, _, _)
DateInstant(y, m, d, secs) ==
    IF m < 1 THEN DateInstant(y - 1, m + 12, d, secs)
    ELSE IF m > 12 THEN DateInstant(y + 1, m - 12, d, secs)
    ELSE << DayNumber(y, m, 1) + (d - 1) + (secs \div SecondsPerDay),
            secs % SecondsPerDay >>

Before(t1, t2) == t1[1] < t2[1] \/ (t1[1] = t2[1] /\ t1[2] < t2[2])

\* t.Add(d) for a duration of secs seconds (negative or positive).
AddSeconds(t, secs) ==
    LET total == t[2] + secs
    IN  << t[1] + (total \div SecondsPerDay), total % SecondsPerDay >>


(***************************************************************************)
(* time.Parse("date:01022006 time:150405", value)                          *)
(***************************************************************************)
ParseError == [ok |-> FALSE, t |-> <<0, 0>>]

\* getnum(s, fixed): one or two leading digits; [ok, n, rest].
GetNum(s, fixed) ==
    IF Len(s) < 1 \/ ~IsDigit(s[1]) THEN [ok |-> FALSE, n |-> 0, rest |-> s]
    ELSE IF Len(s) < 2 \/ ~IsDigit(s[2])
         THEN IF fixed THEN [ok |-> FALSE, n |-> 0, rest |-> s]
              ELSE [ok |-> TRUE, n |-> DigitVal(s[1]), rest |-> Suffix(s, 1)]
    ELSE [ok |-> TRUE, n |-> Atoi(Prefix(s, 2)), rest |-> Suffix(s, 2)]

TimeLiteral == <<" ">> \o TimeLabel

TimeParse(value) ==
    IF ~HasPrefix(value, DateLabel) THEN ParseError
    ELSE
    LET month == GetNum(Suffix(value, Len(DateLabel)), TRUE) IN
    IF ~month.ok \/ month.n <= 0 \/ 12 < month.n THEN ParseError
    ELSE
    LET day == GetNum(month.rest, TRUE) IN
    IF ~day.ok THEN ParseError
    ELSE
    IF Len(day.rest) < 4 \/ ~AllDigits(Prefix(day.rest, 4)) THEN ParseError
    ELSE
    LET year   == Atoi(Prefix(day.rest, 4))
        after  == Suffix(day.rest, 4)
    IN
    IF ~HasPrefix(after, TimeLiteral) THEN ParseError
    ELSE
    LET hour == GetNum(Suffix(after, Len(TimeLiteral)), FALSE) IN
    IF ~hour.ok \/ 24 <= hour.n THEN ParseError
    ELSE
    LET min == GetNum(hour.rest, TRUE) IN
    IF ~min.ok \/ 60 <= min.n THEN ParseError
    ELSE
    LET sec == GetNum(min.rest, TRUE) IN
    IF ~sec.ok \/ 60 <= sec.n THEN ParseError
    ELSE
    IF Len(sec.rest) > 0 THEN ParseError
    ELSE
    IF day.n < 1 \/ day.n > DaysIn(month.n, year) THEN ParseError
    ELSE [ok |-> TRUE,
          t  |-> DateInstant(year, month.n, day.n,
                             hour.n * 3600 + min.n * 60 + sec.n)]

\* The width of "time:" followed by HHMMSS.
TimeWidth == 11

\* The time field with the zeros appended after its digits.
PadTimeRight(itrakTime) ==
    IF Len(itrakTime) < TimeWidth
    THEN itrakTime \o Zeros(TimeWidth - Len(itrakTime))
    ELSE itrakTime

\* The time field with zeros inserted after its five-character label until
\* it is TimeWidth characters long.
PadTime(itrakTime) ==
    IF Len(itrakTime) < TimeWidth
    THEN Prefix(itrakTime, 5) \o Zeros(TimeWidth - Len(itrakTime)) \o Suffix(itrakTime, 5)
    ELSE itrakTime

itrakTimeDate(itrakTime, itrakDate) ==
    TimeParse(itrakDate \o <<" ">> \o PadTime(itrakTime))

\* Convert kmh to mph.  0.621371192 is split into its thousandths, millionths
\* and billionths so that the product stays within 32-bit integers; the
\* argument is in units of 0.001 km/h and the result in units of 1e-6 mph.
KphMilli == 621
KphMicro == 371
KphNano == 192

kphToMPH(kmh) == kmh * KphMilli + ((kmh * KphMicro) \div 1000)
                 + ((kmh * KphNano) \div 1000000)

(***************************************************************************)
(* strconv.ParseFloat on the text a numeric field can hold ([\d\.-]+).     *)
(* The value is returned in thousandths; fractional digits beyond the      *)
(* third are below the model's resolution and are dropped.                 *)
(***************************************************************************)
FloatError == [ok |-> FALSE, v |-> 0]

\* The position of the first "." in s, or Len(s) + 1.
DotPos(s) == IF \E k \in 1..Len(s) : s[k] = "."
             THEN CHOOSE k \in 1..Len(s) : s[k] = "." /\ \A j \in 1..(k - 1) : s[j] # "."
             ELSE Len(s) + 1

ParseUnsigned(s) ==
    LET dot   == DotPos(s)
        whole == Prefix(s, dot - 1)
        frac  == Suffix(s, dot)
        frac3 == Prefix(frac \o Zeros(3), 3)
    IN  IF ~AllDigits(whole) \/ ~AllDigits(frac) \/ (whole = <<>> /\ frac = <<>>)
        THEN FloatError
        ELSE [ok |-> TRUE, v |-> 1000 * Atoi(whole) + Atoi(frac3)]

ParseFloat(s) ==
    IF s # <<>> /\ s[1] = "-"
    THEN LET r == ParseUnsigned(Suffix(s, 1))
         IN  IF r.ok THEN [ok |-> TRUE, v |-> 0 - r.v] ELSE FloatError
    ELSE ParseUnsigned(s)

\* strings.Replace(s, label, "", -1) on a field captured by the grammar: the
\* value's characters are digits, "." and "-", so the label occurs only in front.
StripLabel(s, label) == IF HasPrefix(s, label) THEN Suffix(s, Len(label)) ELSE s


(***************************************************************************)
(* The persistence collaborator (shuttletracker.ModelService).  Its        *)
(* implementation for locations and routes is not part of the sources;     *)
(* the operators below follow its interface contract.                      *)
(***************************************************************************)
\* The registered vehicles: ID and tracker_id (vehicles table).
Vehicles == { [ID |-> 1, TrackerID |-> <<"1">>],
              [ID |-> 2, TrackerID |-> <<"2">>] }

\* A lookup that finds a vehicle for every tracker id.
VehicleWithTrackerIDAny(id) ==
    [found |-> TRUE, vehicle |-> CHOOSE v \in Vehicles : TRUE]

\* VehicleWithTrackerID: the vehicle, or none when no row matches.
VehicleWithTrackerID(id) ==
    IF \E v \in Vehicles : v.TrackerID = id
    THEN [found |-> TRUE, vehicle |-> CHOOSE v \in Vehicles : v.TrackerID = id]
    ELSE [found |-> FALSE, vehicle |-> [ID |-> 0, TrackerID |-> id]]

TrackerOf(vehicleID) == (CHOOSE v \in Vehicles : v.ID = vehicleID).TrackerID

\* The rows of one vehicle, in the order they were stored.
LocationsOf(locs, vehicleID) ==
    SelectSeq(locs, LAMBDA l : l.TrackerID = TrackerOf(vehicleID))

\* LatestLocation: the most recently stored Location of the vehicle.
LatestLocation(locs, vehicleID) ==
    LET mine == LocationsOf(locs, vehicleID)
    IN  IF mine = <<>> THEN [found |-> FALSE, Time |-> <<0, 0>>]
        ELSE [found |-> TRUE, Time |-> mine[Len(mine)].Time]

\* LocationsSince: the vehicle's Locations that are not older than since.
LocationsSince(locs, vehicleID, since) ==
    SelectSeq(LocationsOf(locs, vehicleID), LAMBDA l : ~Before(l.Time, since))

\* CreateLocation: the Location becomes the most recently stored one.
CreateLocation(locs, update) == Append(locs, update)

\* DeleteLocationsBefore: removes exactly the Locations older than the cutoff.
DeleteLocationsBefore(locs, cutoff) ==
    SelectSeq(locs, LAMBDA l : ~Before(l.Time, cutoff))

\* The routes table: route 1 runs north-south, route 2 lies far to the
\* south, route 3 follows route 1 but is disabled.
Routes ==
    << [ID |-> 1, Enabled |-> TRUE, Active |-> TRUE,
        Points |-> << <<42730, -73676>>, <<42734, -73676>> >>],
       [ID |-> 2, Enabled |-> TRUE, Active |-> TRUE,
        Points |-> << <<42630, -73676>> >>],
       [ID |-> 3, Enabled |-> FALSE, Active |-> TRUE,
        Points |-> << <<42730, -73676>>, <<42731, -73676>> >>] >>

RouteIDs == { Routes[k].ID : k \in 1..Len(Routes) }

\* Route(id): the route with that ID.
RouteByID(id) == Routes[CHOOSE k \in 1..Len(Routes) : Routes[k].ID = id]

(***************************************************************************)
(* GuessRouteForVehicle                                                    *)
(***************************************************************************)
\* math.Inf(0): distances are never negative, so -1 stands for +Inf.
Inf == -1

Plus(a, b) == IF a = Inf \/ b = Inf THEN Inf ELSE a + b

Less(a, b) == a # Inf /\ (b = Inf \/ a < b)

Abs(x) == IF x < 0 THEN 0 - x ELSE x

\* The sum of the squares, without the square root.
DistanceSquared(update, point) ==
    LET dLat == update.Latitude - point[1]
        dLng == update.Longitude - point[2]
    IN  dLat * dLat + dLng * dLng

\* math.Sqrt(math.Pow(dLat, 2) + math.Pow(dLng, 2)), to the model's resolution.
Distance(update, point) ==
    LET dLat == update.Latitude - point[1]
        dLng == update.Longitude - point[2]
        sq   == dLat * dLat + dLng * dLng
    IN  IF dLng = 0 THEN Abs(dLat)
        ELSE IF dLat = 0 THEN Abs(dLng)
        ELSE CHOOSE r \in 0..(Abs(dLat) + Abs(dLng)) : r * r <= sq /\ sq < (r + 1) * (r + 1)

\* 0.003 degree, 50 and 5, in thousandths.
ProximityThreshold == 3
Penalty == 50000
AmbiguityThreshold == 5000

\* The least recent updates a guess needs.
MinUpdates == 5

\* The id minRouteID takes when the vehicle is on no route.
NoRouteID == 0

RECURSIVE NearestDistance(_, _, _, _)
NearestDistance(update, points, k, nearest) ==
    IF k > Len(points) THEN nearest
    ELSE LET distance == Distance(update, points[k])
         IN  NearestDistance(update, points, k + 1,
                             IF Less(distance, nearest) THEN distance ELSE nearest)

\* Contribution without the infinite distance of a disabled or inactive route.
ContributionOfAnyRoute(update, route) ==
    LET nearestDistance == NearestDistance(update, route.Points, 1, Inf)
    IN  IF Less(ProximityThreshold, nearestDistance)
        THEN Plus(nearestDistance, Penalty) ELSE nearestDistance

\* What one update adds to the accumulated distance of one route.
Contribution(update, route) ==
    LET nearestDistance == NearestDistance(update, route.Points, 1, Inf)
        penalised == IF Less(ProximityThreshold, nearestDistance)
                     THEN Plus(nearestDistance, Penalty) ELSE nearestDistance
    IN  IF ~route.Enabled \/ ~route.Active THEN Plus(Inf, penalised) ELSE penalised

RECURSIVE RouteDistance(_, _, _)
RouteDistance(updates, route, k) ==
    IF k > Len(updates) THEN 0
    ELSE Plus(Contribution(updates[k], route), RouteDistance(updates, route, k + 1))

\* routeDistances after the accumulation loop: route ID -> summed distance.
RouteDistances(routes, updates) ==
    [id \in { routes[k].ID : k \in 1..Len(routes) } |->
        RouteDistance(updates, routes[CHOOSE k \in 1..Len(routes) : routes[k].ID = id], 1)]

\* The selection loop without the test against the ambiguity threshold.
RECURSIVE SelectRouteUnbounded(_, _, _, _, _, _)
SelectRouteUnbounded(routeDistances, order, n, k, minDistance, minRouteID) ==
    IF k > Len(order) THEN [minDistance |-> minDistance, minRouteID |-> minRouteID]
    ELSE LET distance == routeDistances[order[k]]
         IN  IF Less(distance, minDistance)
             THEN SelectRouteUnbounded(routeDistances, order, n, k + 1, distance, order[k])
             ELSE SelectRouteUnbounded(routeDistances, order, n, k + 1, minDistance,
                                       minRouteID)

\* The selection loop with "not greater" in place of "less": of routes at
\* the same distance the one iterated last is kept.
RECURSIVE SelectRouteLastWins(_, _, _, _, _, _)
SelectRouteLastWins(routeDistances, order, n, k, minDistance, minRouteID) ==
    IF k > Len(order) THEN [minDistance |-> minDistance, minRouteID |-> minRouteID]
    ELSE LET distance == routeDistances[order[k]]
         IN  IF ~Less(minDistance, distance)
             THEN SelectRouteLastWins(routeDistances, order, n, k + 1, distance,
                                      IF Less(AmbiguityThreshold * n, distance)
                                      THEN NoRouteID ELSE order[k])
             ELSE SelectRouteLastWins(routeDistances, order, n, k + 1, minDistance,
                                      minRouteID)

\* The selection loop that keeps the first route at a finite distance.
RECURSIVE SelectRouteFirstWins(_, _, _, _, _, _)
SelectRouteFirstWins(routeDistances, order, n, k, minDistance, minRouteID) ==
    IF k > Len(order) THEN [minDistance |-> minDistance, minRouteID |-> minRouteID]
    ELSE LET distance == routeDistances[order[k]]
         IN  IF minDistance = Inf /\ distance # Inf
             THEN SelectRouteFirstWins(routeDistances, order, n, k + 1, distance,
                                       IF Less(AmbiguityThreshold * n, distance)
                                       THEN NoRouteID ELSE order[k])
             ELSE SelectRouteFirstWins(routeDistances, order, n, k + 1, minDistance,
                                       minRouteID)

\* The selection loop over the map in iteration order `order`.  The code
\* compares averages, the sums divided by the sample count n; dividing both
\* sides by the same positive n keeps the order, so the sums are compared
\* here, and "average > 5" is "sum > 5 * n".
RECURSIVE SelectRoute(_, _, _, _, _, _)
SelectRoute(routeDistances, order, n, k, minDistance, minRouteID) ==
    IF k > Len(order) THEN [minDistance |-> minDistance, minRouteID |-> minRouteID]
    ELSE LET id == order[k]
             distance == routeDistances[id]
         IN  IF Less(distance, minDistance)
             THEN SelectRoute(routeDistances, order, n, k + 1, distance,
                              IF Less(AmbiguityThreshold * n, distance)
                              THEN NoRouteID ELSE id)
             ELSE SelectRoute(routeDistances, order, n, k + 1, minDistance, minRouteID)

\* The orders in which a map with these keys can be iterated.
Orders(keys) ==
    { o \in [1..Cardinality(keys) -> keys] : \A i, j \in DOMAIN o : i # j => o[i] # o[j] }

\* GuessRouteForVehicle that reports no error of a collaborator.
GuessRouteForVehicleSilent(routes, updates, order, fail) ==
    IF fail = "routes" \/ Len(updates) < MinUpdates THEN [route |-> NoRouteID, err |-> FALSE]
    ELSE [route |-> SelectRoute(RouteDistances(routes, updates), order,
                                Len(updates), 1, Inf, NoRouteID).minRouteID,
          err |-> FALSE]

\* GuessRouteForVehicle without the test of the number of updates.
GuessRouteForVehicleUnchecked(routes, updates, order, fail) ==
    IF fail = "routes" THEN [route |-> NoRouteID, err |-> TRUE]
    ELSE LET sel == SelectRoute(RouteDistances(routes, updates), order,
                                Len(updates), 1, Inf, NoRouteID)
         IN  IF sel.minRouteID = NoRouteID THEN [route |-> NoRouteID, err |-> FALSE]
             ELSE IF fail = "route" THEN [route |-> NoRouteID, err |-> TRUE]
             ELSE [route |-> sel.minRouteID, err |-> FALSE]

\* GuessRouteForVehicle with the collaborators' answers as arguments:
\* routes and updates as returned, `order` the map iteration order, and
\* which collaborator call fails, if any ("routes", "since", "route").
\* Returns [route, err]: route is a route ID or NoRouteID (nil).
GuessRouteForVehicle(routes, updates, order, fail) ==
    IF fail = "routes" THEN [route |-> NoRouteID, err |-> TRUE]
    ELSE IF Len(updates) < MinUpdates
         THEN [route |-> NoRouteID, err |-> (fail = "since")]
    ELSE LET sel == SelectRoute(RouteDistances(routes, updates), order,
                                Len(updates), 1, Inf, NoRouteID)
         IN  IF sel.minRouteID = NoRouteID THEN [route |-> NoRouteID, err |-> FALSE]
             ELSE IF fail = "route" THEN [route |-> NoRouteID, err |-> TRUE]
             ELSE [route |-> sel.minRouteID, err |-> FALSE]

(***************************************************************************)
(* The feed.  A payload is a sequence of tokens: the terminator "eof", a   *)
(* stretch of text the field grammar matches (with the text of each named  *)
(* group it captures), or a stretch of text it does not match.             *)
(***************************************************************************)
Eof == [kind |-> "eof"]

Junk == [kind |-> "junk"]

VehicleLabel == <<"V", "e", "h", "i", "c", "l", "e", " ", "I", "D", ":">>
LatLabel == <<"l", "a", "t", ":">>
LonLabel == <<"l", "o", "n", ":">>
DirLabel == <<"d", "i", "r", ":">>
SpdLabel == <<"s", "p", "d", ":">>

\* A stretch "Vehicle ID:.. lat:.. lon:.. dir:.. spd:.. lck:.. time:.. date:.. trig:.."
\* with the named groups the code reads.
Rec(id, lat, spd, time, date) ==
    [kind    |-> "rec",
     id      |-> VehicleLabel \o id,
     lat     |-> LatLabel \o lat,
     lng     |-> LonLabel \o <<"-", "7", "3", ".", "6", "7", "6">>,
     heading |-> DirLabel \o <<"9", "0">>,
     speed   |-> SpdLabel \o spd,
     time    |-> TimeLabel \o time,
     date    |-> DateLabel \o date]

\* strings.Split(body, "eof"): the stretches between terminators.
RECURSIVE Split(_)
Split(body) ==
    IF \E k \in 1..Len(body) : body[k] = Eof
    THEN LET k == CHOOSE k \in 1..Len(body) :
                      body[k] = Eof /\ \A j \in 1..(k - 1) : body[j] # Eof
         IN  << Prefix(body, k - 1) >> \o Split(Suffix(body, k))
    ELSE << body >>

\* The slice with its last element kept.
KeepLast(seq) == seq

\* vehiclesData[:len(vehiclesData)-1]
DropLast(seq) == SubSeq(seq, 1, Len(seq) - 1)

\* dataRegexp.FindAllStringSubmatch(vehicleData, -1): the matches, in order.
FindAllStringSubmatch(vehicleData) ==
    SelectSeq(vehicleData, LAMBDA tok : tok.kind = "rec")

(***************************************************************************)
(* Bounds and inputs                                                       *)
(***************************************************************************)
\* The ticks the timer fires in a run.
MaxTicks == 2

\* updater.updateinterval, in seconds.
UpdateInterval == 10

\* The wall clock when Run starts: 2006-03-04 12:00:00.
Start == [year |-> 2006, month |-> 3, day |-> 4, secs |-> 12 * 3600]

Mar4 == <<"0", "3", "0", "4", "2", "0", "0", "6">>
Jan2 == <<"0", "1", "0", "2", "2", "0", "0", "6">>
T115950 == <<"1", "1", "5", "9", "5", "0">>
T115940 == <<"1", "1", "5", "9", "4", "0">>
Lat42730 == <<"4", "2", ".", "7", "3">>
Spd30 == <<"3", "0">>

\* Vehicle 1 ten seconds before the start, and twenty seconds before it.
RecA == Rec(<<"1">>, Lat42730, Spd30, T115950, Mar4)
RecB == Rec(<<"1">>, Lat42730, Spd30, T115940, Mar4)
\* Vehicle 1 on January 2, 2006, 00:00:00, with the hours' zeros left out.
RecOld == Rec(<<"1">>, Lat42730, Spd30, <<"0">>, Jan2)
\* Vehicle 2.
RecC == Rec(<<"2">>, Lat42730, <<"0">>, T115950, Mar4)
\* A tracker id that is not registered.
RecUnknown == Rec(<<"9">>, Lat42730, Spd30, T115950, Mar4)
\* 61 seconds, and a latitude that is no number.
RecBadTime == Rec(<<"2">>, Lat42730, Spd30, <<"6", "1">>, Mar4)
RecBadLat == Rec(<<"2">>, <<"4", "2", "-", "7">>, Spd30, T115940, Mar4)

\* The payloads the feed can deliver.
Payloads ==
    { << RecA, Eof >>,
      << RecB, Eof >>,
      << RecA, Eof, RecA, Eof >>,
      << RecA, Eof, Junk, Eof >>,
      << RecOld, Eof, RecC, Eof >>,
      << RecUnknown, Eof, RecBadTime, Eof >>,
      << RecBadLat, Eof, RecB >>,
      << >> }

\* The status codes of a response that is not 200 OK.
BadStatuses == {500}

StatusOK == 200

\* A stored Location.
MakeLocation(trackerID, latitude, longitude, heading, speed, time, routeID) ==
    [TrackerID |-> trackerID, Latitude |-> latitude, Longitude |-> longitude,
     Heading |-> heading, Speed |-> speed, Time |-> time, RouteID |-> routeID]

\* Five Locations of vehicle 1 on route 1, stored in the minute before the start.
History ==
    [k \in 1..5 |->
        MakeLocation(<<"1">>, 42730 + k - 1, -73676, 90, 0,
                     DateInstant(Start.year, Start.month, Start.day, Start.secs - 60 + k),
                     1)]

(***************************************************************************)
(* State                                                                   *)
(***************************************************************************)
VARIABLES
    pc,                   \* where the driver goroutine (Run, update) stands
    ticks,                \* ticks the timer has fired
    tickBuf,              \* ticks waiting in the ticker's channel
    cycles,               \* calls of update() started
    dfresp,               \* update()'s local dfresp
    lastDataFeedResponse, \* u.lastDataFeedResponse
    mutex,                \* u.mutex: "free" or who holds it
    tasks,                \* the per-record goroutines of the cycle
    wg,                   \* the WaitGroup's counter
    locations,            \* the stored Locations, in storage order
    crashed,              \* the process died of an unrecovered panic
    pruned,               \* DeleteLocationsBefore calls made by the current cycle
    gpc,                  \* where an inspection caller of GetLastResponse stands
    gret,                 \* the value GetLastResponse is about to return
    lastSet,              \* history: the argument of the last setLastResponse that returned
    created,              \* history: the records stored by this and the previous successful cycle
    input,                \* the arguments of a direct call of an exported or pure function
    output                \* what that call returned

vars == << pc, ticks, tickBuf, cycles, dfresp, lastDataFeedResponse, mutex, tasks,
           wg, locations, crashed, pruned, gpc, gret, lastSet, created, input, output >>

\* No direct call: nothing was passed, nothing was returned.
NoCall == [fn |-> "none"]

\* A nil *DataFeedResponse.
NoResponse == [Body |-> << >>, StatusCode |-> 0, serial |-> 0]

\* time.Now(): the clock advances with the timer.
Now == DateInstant(Start.year, Start.month, Start.day, Start.secs + ticks * UpdateInterval)

\* time.Now().AddDate(0, -1, 0)
OneMonthAgo ==
    DateInstant(Start.year, Start.month - 1, Start.day, Start.secs + ticks * UpdateInterval)

\* time.Minute * -15, in seconds
GuessWindow == -900

\* The updater as NewUpdater leaves it, before Run is called.
Boot ==
    /\ pc = "boot"
    /\ ticks = 0
    /\ tickBuf = 0
    /\ cycles = 0
    /\ dfresp = NoResponse
    /\ lastDataFeedResponse = NoResponse
    /\ mutex = "free"
    /\ tasks = << >>
    /\ wg = 0
    /\ locations \in { << >>, History }
    /\ crashed = FALSE
    /\ pruned = 0
    /\ gpc = "idle"
    /\ gret = NoResponse
    /\ lastSet = NoResponse
    /\ created = [cur |-> {}, prev |-> {}]

Init ==
    /\ Boot
    /\ input = NoCall
    /\ output = NoCall

(***************************************************************************)
(* The ticker: time.Tick(u.updateInterval)                                 *)
(***************************************************************************)
\* The capacity of a Ticker's channel.
TickerCap == 1

\* Mutant of SendTick: a channel that queues every tick.
SendTickQueued(buf) == buf + 1

\* The timer's non-blocking send: a tick that finds the channel full is dropped.
SendTick(buf) == IF buf < TickerCap THEN buf + 1 ELSE buf

Tick ==
    /\ ~crashed
    /\ ticks < MaxTicks
    /\ ticks' = ticks + 1
    /\ tickBuf' = SendTick(tickBuf)
    /\ UNCHANGED << input, output, pc, cycles, dfresp, lastDataFeedResponse, mutex, tasks, wg,
                    locations, crashed, pruned, gpc, gret, lastSet, created >>

(***************************************************************************)
(* Run and update                                                          *)
(***************************************************************************)
\* The driver is between two calls of update().
BetweenCycles == pc \in {"boot", "idle"}

\* u.update() is entered.
BeginUpdate ==
    /\ pc' = "get"
    /\ cycles' = cycles + 1
    /\ pruned' = 0

\* "Do one initial update."
RunInitialUpdate ==
    /\ ~crashed
    /\ pc = "boot"
    /\ BeginUpdate
    /\ UNCHANGED << input, output, ticks, tickBuf, dfresp, lastDataFeedResponse, mutex, tasks, wg,
                    locations, crashed, gpc, gret, lastSet, created >>

\* "for range ticker": a tick is received and update() is called.
RunTick ==
    /\ ~crashed
    /\ pc = "idle"
    /\ tickBuf > 0
    /\ tickBuf' = tickBuf - 1
    /\ BeginUpdate
    /\ UNCHANGED << input, output, ticks, dfresp, lastDataFeedResponse, mutex, tasks, wg,
                    locations, crashed, gpc, gret, lastSet, created >>

\* Mutant of AfterFailedFetch: the return is missing, and the failed
\* response goes on to be cached.
AfterFailedFetchCaches ==
    /\ dfresp' = [Body |-> << >>, StatusCode |-> 500, serial |-> cycles]
    /\ pc' = "setLock"
    /\ UNCHANGED << input, output, ticks, tickBuf, cycles, lastDataFeedResponse, mutex, tasks,
                    wg, locations, crashed, pruned, gpc, gret, lastSet, created >>

\* What update() does after a fetch that failed: it returns.
AfterFailedFetch ==
    /\ pc' = "idle"
    /\ UNCHANGED << input, output, ticks, tickBuf, cycles, dfresp, lastDataFeedResponse, mutex, tasks,
                    wg, locations, crashed, pruned, gpc, gret, lastSet, created >>

\* client.Get returns an error.
GetTransportError ==
    /\ ~crashed
    /\ pc = "get"
    /\ AfterFailedFetch

\* The response's status is not 200 OK.
GetBadStatus ==
    /\ ~crashed
    /\ pc = "get"
    /\ \E status \in BadStatuses : status # StatusOK
    /\ AfterFailedFetch

\* ioutil.ReadAll returns an error.
ReadBodyError ==
    /\ ~crashed
    /\ pc = "get"
    /\ AfterFailedFetch

\* The fetch succeeds with one of the payloads in `feed`: dfresp is built.
Fetched(feed) ==
    /\ ~crashed
    /\ pc = "get"
    /\ \E body \in feed :
          dfresp' = [Body |-> body, StatusCode |-> StatusOK, serial |-> cycles]
    /\ pc' = "setLock"
    /\ UNCHANGED << input, output, ticks, tickBuf, cycles, lastDataFeedResponse, mutex, tasks, wg,
                    locations, crashed, pruned, gpc, gret, lastSet, created >>

\* Mutant of CanLock: a lock that excludes nobody.
CanLockAlways == TRUE

\* mutex.Lock() returns only when nobody holds the mutex.
CanLock == mutex = "free"

GetOK == Fetched(Payloads)

\* setLastResponse: u.mutex.Lock()
SetLock ==
    /\ ~crashed
    /\ pc = "setLock"
    /\ CanLock
    /\ mutex' = "set"
    /\ pc' = "setWrite"
    /\ UNCHANGED << input, output, ticks, tickBuf, cycles, dfresp, lastDataFeedResponse, tasks, wg,
                    locations, crashed, pruned, gpc, gret, lastSet, created >>

\* setLastResponse: u.lastDataFeedResponse = dfresp
SetWrite ==
    /\ ~crashed
    /\ pc = "setWrite"
    /\ lastDataFeedResponse' = dfresp
    /\ pc' = "setUnlock"
    /\ UNCHANGED << input, output, ticks, tickBuf, cycles, dfresp, mutex, tasks, wg,
                    locations, crashed, pruned, gpc, gret, lastSet, created >>

\* setLastResponse: u.mutex.Unlock(), and the call returns
SetUnlock ==
    /\ ~crashed
    /\ pc = "setUnlock"
    /\ mutex' = "free"
    /\ lastSet' = dfresp
    /\ pc' = "spawn"
    /\ UNCHANGED << input, output, ticks, tickBuf, cycles, dfresp, lastDataFeedResponse, tasks, wg,
                    locations, crashed, pruned, gpc, gret, created >>

\* A goroutine about to run handleVehicleData(vehicleData).
NewTask(vehicleData) ==
    [data |-> vehicleData, pc |-> "start", vehicleID |-> 0, newTime |-> <<0, 0>>,
     route |-> NoRouteID, outcome |-> "running"]

\* vehiclesData: the payload split by "eof", without the last element.
VehiclesData(body) == DropLast(Split(body))

\* The fan-out loop with goroutines that read the loop variable when they
\* run, after the loop has ended: each handles the last element.
SpawnSharingLoopVariable ==
    /\ ~crashed
    /\ pc = "spawn"
    /\ LET vehiclesData == VehiclesData(dfresp.Body)
       IN  /\ tasks' = tasks \o [k \in 1..Len(vehiclesData) |->
                                    NewTask(vehiclesData[Len(vehiclesData)])]
           /\ wg' = wg + Len(vehiclesData)
    /\ created' = [cur |-> {}, prev |-> created.cur]
    /\ pc' = "wait"
    /\ UNCHANGED << input, output, ticks, tickBuf, cycles, dfresp, lastDataFeedResponse, mutex,
                    locations, crashed, pruned, gpc, gret, lastSet >>

\* The fan-out loop: wg.Add(1) and a goroutine for each element of vehiclesData.
Spawn ==
    /\ ~crashed
    /\ pc = "spawn"
    /\ LET vehiclesData == VehiclesData(dfresp.Body)
       IN  /\ tasks' = tasks \o [k \in 1..Len(vehiclesData) |-> NewTask(vehiclesData[k])]
           /\ wg' = wg + Len(vehiclesData)
    /\ created' = [cur |-> {}, prev |-> created.cur]
    /\ pc' = "wait"
    /\ UNCHANGED << input, output, ticks, tickBuf, cycles, dfresp, lastDataFeedResponse, mutex,
                    locations, crashed, pruned, gpc, gret, lastSet >>

\* Mutants of WaitReturns: no barrier, and a barrier that misses one goroutine.
WaitReturnsAtOnce == TRUE

WaitReturnsOneEarly == wg <= 1

\* wg.Wait() returns when the counter is zero.
WaitReturns == wg = 0

Wait ==
    /\ ~crashed
    /\ pc = "wait"
    /\ WaitReturns
    /\ pc' = "prune"
    /\ UNCHANGED << input, output, ticks, tickBuf, cycles, dfresp, lastDataFeedResponse, mutex, tasks,
                    wg, locations, crashed, pruned, gpc, gret, lastSet, created >>

Running(task) == task.pc \notin {"done", "panicked"}

\* u.ms.DeleteLocationsBefore(time.Now().AddDate(0, -1, 0)), and update()
\* returns whether the call failed or not.  Goroutines that returned are gone.
Prune ==
    /\ ~crashed
    /\ pc = "prune"
    /\ \E fail \in BOOLEAN :
          IF fail
          THEN UNCHANGED << locations, created >>
          ELSE /\ locations' = DeleteLocationsBefore(locations, OneMonthAgo)
               /\ created' = [created EXCEPT !.cur =
                     { [e EXCEPT !.deleted = e.deleted \/ Before(e.ts, OneMonthAgo)] : e \in created.cur }]
    /\ pruned' = pruned + 1
    /\ tasks' = SelectSeq(tasks, Running)
    /\ pc' = "idle"
    /\ UNCHANGED << input, output, ticks, tickBuf, cycles, dfresp, lastDataFeedResponse, mutex,
                    wg, crashed, gpc, gret, lastSet >>

(***************************************************************************)
(* handleVehicleData, one goroutine per record                             *)
(***************************************************************************)
\* The goroutine returns from handleVehicleData and calls wg.Done().
Finish(i, outcome) ==
    /\ tasks' = [tasks EXCEPT ![i].pc = "done", ![i].outcome = outcome]
    /\ wg' = wg - 1

\* The named groups of the first match.
Result(vehicleData) == FindAllStringSubmatch(vehicleData)[1]

\* The match, the vehicle lookup and the timestamp.  Indexing the matches of
\* a record the grammar does not match panics, and a panic no goroutine
\* recovers ends the process.
HandleStart(i) ==
    /\ ~crashed
    /\ i \in DOMAIN tasks
    /\ tasks[i].pc = "start"
    /\ IF FindAllStringSubmatch(tasks[i].data) = << >>
       THEN /\ crashed' = TRUE
            /\ tasks' = [tasks EXCEPT ![i].pc = "panicked", ![i].outcome = "panic"]
            /\ wg' = wg
       ELSE /\ crashed' = crashed
            /\ \E fail \in BOOLEAN :
                  LET result  == Result(tasks[i].data)
                      itrakID == StripLabel(result.id, VehicleLabel)
                      lookup  == VehicleWithTrackerID(itrakID)
                      newTime == itrakTimeDate(result.time, result.date)
                  IN  IF fail THEN Finish(i, "vehicle error")
                      ELSE IF ~lookup.found THEN Finish(i, "unknown vehicle")
                      ELSE IF ~newTime.ok THEN Finish(i, "bad time")
                      ELSE /\ tasks' = [tasks EXCEPT ![i].pc = "latest",
                                                     ![i].vehicleID = lookup.vehicle.ID,
                                                     ![i].newTime = newTime.t]
                           /\ wg' = wg
    /\ UNCHANGED << input, output, pc, ticks, tickBuf, cycles, dfresp, lastDataFeedResponse, mutex,
                    locations, pruned, gpc, gret, lastSet, created >>

\* Mutants of IsDuplicate: ordering checks in place of the equality check.
IsDuplicateIfOlder(lastUpdate, newTime) ==
    lastUpdate.found /\ Before(newTime, lastUpdate.Time)

IsDuplicateIfNotNewer(lastUpdate, newTime) ==
    lastUpdate.found /\ ~Before(lastUpdate.Time, newTime)

\* err != ErrLocationNotFound && newTime.Equal(lastUpdate.Time)
IsDuplicate(lastUpdate, newTime) == lastUpdate.found /\ newTime = lastUpdate.Time

\* u.ms.LatestLocation(vehicle.ID) and the comparison of the timestamps.
HandleLatest(i) ==
    /\ ~crashed
    /\ i \in DOMAIN tasks
    /\ tasks[i].pc = "latest"
    /\ \E fail \in BOOLEAN :
          IF fail THEN Finish(i, "latest error")
          ELSE IF IsDuplicate(LatestLocation(locations, tasks[i].vehicleID), tasks[i].newTime)
               THEN Finish(i, "duplicate")
               ELSE /\ tasks' = [tasks EXCEPT ![i].pc = "guess"]
                    /\ wg' = wg
    /\ UNCHANGED << input, output, pc, ticks, tickBuf, cycles, dfresp, lastDataFeedResponse, mutex,
                    locations, crashed, pruned, gpc, gret, lastSet, created >>

\* The numeric fields of a record, parsed.
Numbers(result) ==
    [latitude  |-> ParseFloat(StripLabel(result.lat, LatLabel)),
     longitude |-> ParseFloat(StripLabel(result.lng, LonLabel)),
     heading   |-> ParseFloat(StripLabel(result.heading, DirLabel)),
     speedKMH  |-> ParseFloat(StripLabel(result.speed, SpdLabel))]

\* The orders the selection loop can take: the map is iterated only when
\* there are enough updates.
IterationOrders(updates) ==
    IF Len(updates) < MinUpdates THEN { << >> } ELSE Orders(RouteIDs)

\* u.GuessRouteForVehicle(vehicle) and the parsing of the numeric fields.
HandleGuess(i) ==
    /\ ~crashed
    /\ i \in DOMAIN tasks
    /\ tasks[i].pc = "guess"
    /\ \E fail \in {"none", "routes", "since", "route"} :
          LET updates == IF fail = "since" THEN << >>
                         ELSE LocationsSince(locations, tasks[i].vehicleID,
                                             AddSeconds(Now, GuessWindow))
          IN  \E order \in IterationOrders(updates) :
                 LET guess == GuessRouteForVehicle(Routes, updates, order, fail)
                     n     == Numbers(Result(tasks[i].data))
                 IN  IF guess.err THEN Finish(i, "guess error")
                     ELSE IF ~n.latitude.ok \/ ~n.longitude.ok \/ ~n.heading.ok
                             \/ ~n.speedKMH.ok
                          THEN Finish(i, "bad number")
                     ELSE /\ tasks' = [tasks EXCEPT ![i].pc = "create",
                                                    ![i].route = guess.route]
                          /\ wg' = wg
    /\ UNCHANGED << input, output, pc, ticks, tickBuf, cycles, dfresp, lastDataFeedResponse, mutex,
                    locations, crashed, pruned, gpc, gret, lastSet, created >>

\* The Location built from a record, the route left out.
NewLocationUnrouted(task) ==
    LET result == Result(task.data)
        n      == Numbers(result)
    IN  MakeLocation(StripLabel(result.id, VehicleLabel), n.latitude.v, n.longitude.v,
                     n.heading.v, kphToMPH(n.speedKMH.v), task.newTime, NoRouteID)

\* The Location built from a record.
NewLocation(task) ==
    LET result == Result(task.data)
        n      == Numbers(result)
    IN  MakeLocation(StripLabel(result.id, VehicleLabel), n.latitude.v, n.longitude.v,
                     n.heading.v, kphToMPH(n.speedKMH.v), task.newTime, task.route)

\* What the history keeps of a record that was stored.
Stored(task) ==
    LET result == Result(task.data)
    IN  [id |-> result.id, time |-> result.time, date |-> result.date,
         ts |-> task.newTime, deleted |-> FALSE]

\* u.ms.CreateLocation(update)
HandleCreate(i) ==
    /\ ~crashed
    /\ i \in DOMAIN tasks
    /\ tasks[i].pc = "create"
    /\ \E fail \in BOOLEAN :
          IF fail
          THEN /\ Finish(i, "create error")
               /\ UNCHANGED << locations, created >>
          ELSE /\ Finish(i, "stored")
               /\ locations' = CreateLocation(locations, NewLocation(tasks[i]))
               /\ created' = [created EXCEPT !.cur = @ \cup {Stored(tasks[i])}]
    /\ UNCHANGED << input, output, pc, ticks, tickBuf, cycles, dfresp, lastDataFeedResponse, mutex,
                    crashed, pruned, gpc, gret, lastSet >>

(***************************************************************************)
(* GetLastResponse, called by an inspection caller                         *)
(***************************************************************************)
\* u.mutex.Lock()
GetLock ==
    /\ ~crashed
    /\ gpc = "idle"
    /\ CanLock
    /\ mutex' = "get"
    /\ gpc' = "locked"
    /\ UNCHANGED << input, output, pc, ticks, tickBuf, cycles, dfresp, lastDataFeedResponse, tasks, wg,
                    locations, crashed, pruned, gret, lastSet, created >>

\* return u.lastDataFeedResponse: the operand is evaluated
GetRead ==
    /\ ~crashed
    /\ gpc = "locked"
    /\ gret' = lastDataFeedResponse
    /\ gpc' = "read"
    /\ UNCHANGED << input, output, pc, ticks, tickBuf, cycles, dfresp, lastDataFeedResponse, mutex, tasks,
                    wg, locations, crashed, pruned, lastSet, created >>

\* the deferred u.mutex.Unlock() runs and the caller takes the value
GetUnlock ==
    /\ ~crashed
    /\ gpc = "read"
    /\ mutex' = "free"
    /\ gpc' = "idle"
    /\ gret' = NoResponse
    /\ UNCHANGED << input, output, pc, ticks, tickBuf, cycles, dfresp, lastDataFeedResponse, tasks, wg,
                    locations, crashed, pruned, lastSet, created >>

(***************************************************************************)
(* Specifications                                                          *)
(***************************************************************************)
Handle == \E i \in DOMAIN tasks :
             HandleStart(i) \/ HandleLatest(i) \/ HandleGuess(i) \/ HandleCreate(i)

\* The steps of Run and update() other than a successful fetch.
Cycle == \/ RunInitialUpdate
         \/ RunTick
         \/ GetTransportError
         \/ GetBadStatus
         \/ ReadBodyError
         \/ SetLock
         \/ SetWrite
         \/ SetUnlock
         \/ Spawn
         \/ Wait
         \/ Prune

Next == Tick \/ Cycle \/ GetOK \/ Handle

\* The updater alone: no inspection caller.
Spec == Init /\ [][Next]_vars

\* The updater and an inspection caller, on a feed of two payloads and an
\* empty store.
InspectedPayloads == { << RecA, Eof >>, << RecB, Eof, RecC, Eof >> }

GetOKInspected == Fetched(InspectedPayloads)

Inspect == GetLock \/ GetRead \/ GetUnlock

InitInspected == Init /\ locations = << >>

NextInspected == Tick \/ Cycle \/ GetOKInspected \/ Handle \/ Inspect

SpecInspected == InitInspected /\ [][NextInspected]_vars

(***************************************************************************)
(* Direct calls of GuessRouteForVehicle, an exported method: the routes    *)
(* table and the vehicle's history are whatever the collaborators return.  *)
(***************************************************************************)
\* The most routes in a table and the most samples in a history.
MaxRoutes == 2
MaxSamples == 6

\* The routes a table is drawn from: two enabled, active routes apart from
\* each other, a disabled one, one without points, an inactive one, one
\* that runs where route 1 runs, and one that crosses route 1.
RoutePool ==
    { Routes[1], Routes[2], Routes[3],
      [ID |-> 4, Enabled |-> TRUE, Active |-> TRUE, Points |-> << >>],
      [ID |-> 5, Enabled |-> TRUE, Active |-> FALSE,
       Points |-> << <<42730, -73676>>, <<42734, -73676>> >>],
      [ID |-> 6, Enabled |-> TRUE, Active |-> TRUE,
       Points |-> << <<42730, -73676>>, <<42734, -73676>> >>],
      [ID |-> 7, Enabled |-> TRUE, Active |-> TRUE,
       Points |-> << <<42733, -73676>> >>] }

\* The slice Routes() returns for a set of routes.
TableOf(S) ==
    CHOOSE t \in [1..Cardinality(S) -> S] : \A i, j \in DOMAIN t : i < j => t[i].ID < t[j].ID

RouteTables == { TableOf(S) : S \in { S \in SUBSET RoutePool : Cardinality(S) <= MaxRoutes } }

\* A sample on route 1 (and 6), and one a twentieth of a degree from it.
SampleNear == MakeLocation(<<"1">>, 42732, -73676, 90, 0, <<0, 0>>, 0)
SampleFar == MakeLocation(<<"1">>, 42680, -73676, 90, 0, <<0, 0>>, 0)

\* The histories LocationsSince() returns, oldest first.
Histories == UNION { [1..n -> {SampleNear, SampleFar}] : n \in 0..MaxSamples }

GuessInputs ==
    { [fn |-> "guess", routes |-> t, updates |-> h] : t \in RouteTables, h \in Histories }

\* What a collaborator call can do: all succeed, or the named one fails.
Failures == {"none", "routes", "since", "route"}

\* u.GuessRouteForVehicle(vehicle): ret is what it returns, order the
\* order in which the runtime iterates the map of this call, fail the
\* collaborator call that fails when it is made.
GuessCall ==
    /\ input.fn = "guess"
    /\ output = NoCall
    /\ \E fail \in Failures :
          LET updates == IF fail = "since" THEN << >> ELSE input.updates
              keys == { input.routes[k].ID : k \in 1..Len(input.routes) }
          IN  \E order \in Orders(keys) :
                  output' = [fn |-> "guess", order |-> order, fail |-> fail,
                             ret |-> GuessRouteForVehicle(input.routes, updates, order, fail)]
    /\ UNCHANGED << pc, ticks, tickBuf, cycles, dfresp, lastDataFeedResponse, mutex, tasks,
                    wg, locations, crashed, pruned, gpc, gret, lastSet, created, input >>

InitGuess == Boot /\ locations = << >> /\ input \in GuessInputs /\ output = NoCall

NextGuess == GuessCall

SpecGuess == InitGuess /\ [][NextGuess]_vars

(***************************************************************************)
(* Direct calls of itrakTimeDate on the time and date fields of a record   *)
(***************************************************************************)
\* The most digits in a time field, and the digits they are drawn from.
MaxTimeDigits == 7
TimeDigits == {"0", "2", "6"}

\* The time fields the record pattern lets through: the label and digits.
TimeFields ==
    { TimeLabel \o d : d \in UNION { [1..n -> TimeDigits] : n \in 1..MaxTimeDigits } }

\* Date fields: two days of 2006, a 29th of February in a leap year and in
\* a common year, a thirteenth month, a day zero, seven digits, nine digits.
DateFields ==
    { DateLabel \o d : d \in
        { Jan2, Mar4,
          <<"0", "2", "2", "9", "2", "0", "0", "4">>,
          <<"0", "2", "2", "9", "2", "0", "0", "6">>,
          <<"1", "3", "0", "1", "2", "0", "0", "6">>,
          <<"0", "1", "0", "0", "2", "0", "0", "6">>,
          <<"1", "0", "2", "2", "0", "0", "6">>,
          <<"0", "1", "0", "2", "2", "0", "0", "6", "1">> } }

TimeInputs == { [fn |-> "time", time |-> t, date |-> d] : t \in TimeFields, d \in DateFields }

\* itrakTimeDate(itrakTime, itrakDate): padded is the time field as handed
\* to time.Parse, ret what is returned.
TimeCall ==
    /\ input.fn = "time"
    /\ output = NoCall
    /\ output' = [fn |-> "time", padded |-> PadTime(input.time),
                  ret |-> itrakTimeDate(input.time, input.date)]
    /\ UNCHANGED << pc, ticks, tickBuf, cycles, dfresp, lastDataFeedResponse, mutex, tasks,
                    wg, locations, crashed, pruned, gpc, gret, lastSet, created, input >>

InitTime == Boot /\ locations = << >> /\ input \in TimeInputs /\ output = NoCall

NextTime == TimeCall

SpecTime == InitTime /\ [][NextTime]_vars

(***************************************************************************)
(* The first cycle of the updater on every short payload                   *)
(***************************************************************************)
\* The most tokens in a payload, and the tokens it is made of.
MaxTokens == 4
Tokens == {Eof, Junk, RecA, RecC}

SplitPayloads == UNION { [1..n -> Tokens] : n \in 0..MaxTokens }

GetOKSplit == Fetched(SplitPayloads)

\* The steps of the initial update that follow a successful fetch.
FirstCycle == \/ RunInitialUpdate
              \/ SetLock
              \/ SetWrite
              \/ SetUnlock
              \/ Spawn
              \/ Wait
              \/ Prune

InitSplit == Init /\ locations = << >>

NextSplit == FirstCycle \/ GetOKSplit \/ Handle

SpecSplit == InitSplit /\ [][NextSplit]_vars

(***************************************************************************)
(* The updater on payloads of two records, of which one may be of a        *)
(* tracker that is not registered                                          *)
(***************************************************************************)
RecordPayloads == { << RecUnknown, Eof, RecC, Eof >>, << RecA, Eof, RecC, Eof >> }

GetOKRecords == Fetched(RecordPayloads)

NextRecords == Tick \/ Cycle \/ GetOKRecords \/ Handle

SpecRecords == Init /\ [][NextRecords]_vars

(***************************************************************************)
(* The updater on a store that holds no history, a history on route 1, or  *)
(* a history off every route                                               *)
(***************************************************************************)
\* Five Locations of vehicle 1 a twentieth of a degree off route 1, stored
\* in the minute before the start.
HistoryOff ==
    [k \in 1..5 |->
        MakeLocation(<<"1">>, 42680, -73676, 90, 0,
                     DateInstant(Start.year, Start.month, Start.day, Start.secs - 60 + k),
                     NoRouteID)]

InitReferences ==
    /\ pc = "boot"
    /\ ticks = 0
    /\ tickBuf = 0
    /\ cycles = 0
    /\ dfresp = NoResponse
    /\ lastDataFeedResponse = NoResponse
    /\ mutex = "free"
    /\ tasks = << >>
    /\ wg = 0
    /\ locations \in { << >>, History, HistoryOff }
    /\ crashed = FALSE
    /\ pruned = 0
    /\ gpc = "idle"
    /\ gret = NoResponse
    /\ lastSet = NoResponse
    /\ created = [cur |-> {}, prev |-> {}]
    /\ input = NoCall
    /\ output = NoCall

SpecReferences == InitReferences /\ [][NextRecords]_vars

(***************************************************************************)
(* Properties                                                              *)
(***************************************************************************)
SameObservation(l1, l2) == l1.TrackerID = l2.TrackerID /\ l1.Time = l2.Time

\* C1: the stored Locations never hold two Locations of one vehicle with an
\* equal timestamp.
C1_NoDuplicateLocation ==
    \A j, k \in DOMAIN locations :
        j # k => ~SameObservation(locations[j], locations[k])

Unmatched(task) == FindAllStringSubmatch(task.data) = << >>

\* C2: a record the field grammar does not match is skipped and nothing
\* else: once handleVehicleData has looked at it the goroutine has returned
\* without storing anything, and the process is alive, so that the other
\* records are handled and the cycle goes on to the barrier and to pruning.
C2_UnmatchedRecordSkipped ==
    \A i \in DOMAIN tasks :
        (Unmatched(tasks[i]) /\ tasks[i].pc # "start")
            => (tasks[i].pc = "done" /\ tasks[i].outcome # "stored" /\ ~crashed)

\* C3: no failure inside a cycle stops the driver: while a cycle is under
\* way, a step of update() or of one of its goroutines can be taken, so the
\* cycle comes to its end and the driver goes back to waiting for a tick.
C3_CycleCanGoOn ==
    ~BetweenCycles =>
        /\ ~crashed
        /\ \/ pc \in {"get", "setWrite", "setUnlock", "spawn", "prune"}
           \/ pc = "setLock" /\ CanLock
           \/ pc = "wait" /\ WaitReturns
           \/ pc = "wait" /\ \E i \in DOMAIN tasks : Running(tasks[i])

SameRecord(e, f) == e.id = f.id /\ e.time = f.time /\ e.date = f.date

\* The only record of its vehicle stored in this cycle and the one before.
OnlyOfVehicle(e) ==
    \A g \in created.cur \cup created.prev : g.id = e.id => SameRecord(g, e)

\* C4 as claimed: a record delivered in two consecutive successful cycles,
\* no other record of the vehicle being stored in between, is stored once:
\* the second delivery is discarded.
C4_SecondDeliveryDiscarded ==
    \A e \in created.cur, f \in created.prev :
        ~(SameRecord(e, f) /\ OnlyOfVehicle(e))

\* C4 as amended: the same, provided retention pruning did not delete the
\* Location of the first delivery (its timestamp is not older than one
\* month at the end of the first cycle).
C4_SecondDeliveryDiscardedUnlessPruned ==
    \A e \in created.cur, f \in created.prev :
        ~(SameRecord(e, f) /\ OnlyOfVehicle(e) /\ ~f.deleted)

\* A second delivery is discarded while the first delivery's Location is stored.
C4_Witness ==
    \E i \in DOMAIN tasks :
        /\ tasks[i].outcome = "duplicate"
        /\ ~Unmatched(tasks[i])
        /\ \E f \in created.prev :
              /\ SameRecord(f, Result(tasks[i].data))
              /\ OnlyOfVehicle(f)
              /\ ~f.deleted

\* Task i reads the latest Location in this step, and the read succeeds.
ReadsLatest(i) ==
    /\ i \in DOMAIN tasks
    /\ i \in DOMAIN tasks'
    /\ tasks[i].pc = "latest"
    /\ tasks'[i].pc # "latest"
    /\ tasks'[i].outcome # "latest error"

\* C5: the duplicate check is an equality check.  A record of a known
\* vehicle with a well-formed timestamp is discarded as a duplicate only if
\* the vehicle has a latest Location and its timestamp is equal; with a
\* different timestamp, earlier ones included, or with no Location stored,
\* it goes on to be stored, and the Location stored carries its timestamp.
C5_EqualityCheckOnly ==
    [][ /\ \A i \in DOMAIN tasks :
              ReadsLatest(i) =>
                  LET lastUpdate == LatestLocation(locations, tasks[i].vehicleID)
                  IN  IF lastUpdate.found /\ lastUpdate.Time = tasks[i].newTime
                      THEN tasks'[i].outcome = "duplicate"
                      ELSE tasks'[i].pc = "guess"
        /\ \A i \in DOMAIN tasks :
              (i \in DOMAIN tasks' /\ tasks[i].pc = "create" /\ tasks'[i].outcome = "stored")
                  => /\ Len(locations') = Len(locations) + 1
                     /\ locations'[Len(locations')].Time = tasks[i].newTime
                     /\ locations'[Len(locations')].TrackerID
                            = TrackerOf(tasks[i].vehicleID)
      ]_vars

\* A Location is stored whose timestamp is earlier than that of a Location
\* of the same vehicle stored before it.
C5_Witness ==
    \E j, k \in DOMAIN locations :
        /\ j < k
        /\ locations[j].TrackerID = locations[k].TrackerID
        /\ Before(locations[k].Time, locations[j].Time)

\* A step of update() that ends a cycle whose fetch failed.
FailedFetch == GetTransportError \/ GetBadStatus \/ ReadBodyError

\* C6: a cycle whose fetch fails processes nothing: it ends at once, and the
\* cached response, the stored Locations, the goroutines and the pruning
\* are as they were; a step that leaves the fetch either ends the cycle so
\* or carries a response with status 200; the cached response, when there
\* is one, has status 200.
C6_FailedFetchDoesNothing ==
    /\ [](lastDataFeedResponse # NoResponse => lastDataFeedResponse.StatusCode = StatusOK)
    /\ [][ /\ FailedFetch =>
                /\ pc' = "idle"
                /\ UNCHANGED << lastDataFeedResponse, lastSet, locations, tasks, wg,
                                pruned, created >>
           /\ (pc = "get" /\ pc' # "get") =>
                \/ pc' = "idle" /\ UNCHANGED << lastDataFeedResponse, lastSet, locations,
                                                tasks, wg, pruned, created >>
                \/ pc' = "setLock" /\ dfresp'.StatusCode = StatusOK
         ]_vars

\* A cycle whose fetch failed has ended, and the response cached by an
\* earlier cycle is still the cached one.
C6_Witness ==
    /\ pc = "idle"
    /\ pruned = 0
    /\ lastDataFeedResponse # NoResponse
    /\ lastDataFeedResponse.serial < cycles

\* C7: retention pruning is called only after every goroutine of the cycle
\* has returned, and at most once in a cycle.
C7_PruneAfterJoin ==
    /\ pruned <= 1
    /\ (pc = "prune" \/ pruned > 0) =>
           /\ wg = 0
           /\ \A i \in DOMAIN tasks : tasks[i].pc = "done"
    /\ pruned > 0 => pc = "idle"

\* Pruning is about to be called in a cycle that ran two goroutines.
C7_Witness ==
    /\ pc = "prune"
    /\ Len(tasks) = 2
    /\ \E i \in DOMAIN tasks : tasks[i].outcome = "stored"

\* C8: cycles do not overlap: update() is entered only when the driver is
\* between cycles, and while a cycle has not yet spawned its goroutines no
\* goroutine of an earlier cycle is running.
C8_NoOverlappingCycles ==
    /\ pc \in {"boot", "idle", "get", "setLock", "setWrite", "setUnlock", "spawn"} =>
           /\ wg = 0
           /\ \A i \in DOMAIN tasks : ~Running(tasks[i])
    /\ pc \in {"get", "setLock", "setWrite", "setUnlock", "spawn"} => pruned = 0

\* A second cycle begins after a cycle that stored a Location.
C8_Witness ==
    /\ pc = "get"
    /\ cycles = 2
    /\ created.cur # {}

\* C9: at most one tick is held pending; a tick that fires while one is
\* pending is dropped; every cycle after the first took a tick, so the
\* cycles started and the tick pending never exceed the ticks fired plus
\* the initial update.
C9_TicksDroppedNotQueued ==
    /\ tickBuf <= 1
    /\ cycles + tickBuf <= ticks + 1

\* Two ticks fired during the first cycle: one is pending, one was dropped.
C9_Witness ==
    /\ cycles = 1
    /\ ~BetweenCycles
    /\ ticks = 2
    /\ tickBuf = 1

InSetSection == pc \in {"setWrite", "setUnlock"}

InGetSection == gpc \in {"locked", "read"}

\* C10: the last response is a single slot behind a lock: setLastResponse
\* and GetLastResponse are never in the critical section together, the
\* mutex is held exactly while one of them is, and GetLastResponse returns
\* the response of the setLastResponse that returned last, none before the
\* first one.
C10_LastResponseCache ==
    /\ ~(InSetSection /\ InGetSection)
    /\ mutex = (IF InSetSection THEN "set" ELSE IF InGetSection THEN "get" ELSE "free")
    /\ gpc = "read" => gret = lastSet
    /\ cycles = 0 => lastSet = NoResponse
    /\ (~InSetSection) => lastDataFeedResponse = lastSet

\* GetLastResponse returns the response of the first cycle while the
\* setLastResponse of the second cycle waits for the mutex.
C10_Witness ==
    /\ gpc = "read"
    /\ gret # NoResponse
    /\ pc = "setLock"
    /\ dfresp # gret

(***************************************************************************)
(* Properties of GuessRouteForVehicle                                      *)
(***************************************************************************)
\* The route of the table with that ID.
RouteIn(routes, id) == routes[CHOOSE k \in 1..Len(routes) : routes[k].ID = id]

\* The route can be guessed: it is enabled and active.
InService(route) == route.Enabled /\ route.Active

\* The call returned a route.
Returned == output.fn = "guess" /\ output.ret.route # NoRouteID

\* C11: GuessRouteForVehicle never returns a disabled or inactive route,
\* whatever the routes table (routes without points, tables with no route
\* in service), the history, the iteration order and the failing call: the
\* route it returns is a route of the table that is enabled and active.
C11_NeverOutOfService ==
    Returned =>
        /\ \E k \in 1..Len(input.routes) : input.routes[k].ID = output.ret.route
        /\ InService(RouteIn(input.routes, output.ret.route))
        /\ ~output.ret.err

\* A route is returned from a table that also holds a route out of service
\* whose points are at least as near to every sample.
C11_Witness ==
    /\ Returned
    /\ \E k \in 1..Len(input.routes) :
          /\ ~InService(input.routes[k])
          /\ \A n \in 1..Len(input.updates) :
                ~Less(NearestDistance(input.updates[n],
                                      RouteIn(input.routes, output.ret.route).Points, 1, Inf),
                      NearestDistance(input.updates[n], input.routes[k].Points, 1, Inf))

\* The call returned neither a route nor an error.
ReturnedNothing == output.fn = "guess" /\ output.ret.route = NoRouteID /\ ~output.ret.err

\* C12: when Routes() and LocationsSince() succeed and the history holds
\* fewer than 5 samples, GuessRouteForVehicle returns no route and no error.
C12_TooFewSamples ==
    (/\ output.fn = "guess"
     /\ output.fail \notin {"routes", "since"}
     /\ Len(input.updates) < MinUpdates) => ReturnedNothing

\* Nothing is returned for a history of four samples that all lie on a
\* route in service of the table.
C12_Witness ==
    /\ ReturnedNothing
    /\ output.fail = "none"
    /\ Len(input.updates) = MinUpdates - 1
    /\ \E k \in 1..Len(input.routes) :
          /\ InService(input.routes[k])
          /\ \A n \in 1..Len(input.updates) :
                ~Less(ProximityThreshold,
                      NearestDistance(input.updates[n], input.routes[k].Points, 1, Inf))

\* The sample lies within 0.003 degree of the route's polyline.
OnRoute(update, route) ==
    \E i \in DOMAIN route.Points :
        LET dLat == update.Latitude - route.Points[i][1]
            dLng == update.Longitude - route.Points[i][2]
        IN  dLat * dLat + dLng * dLng <= ProximityThreshold * ProximityThreshold

\* Every sample from the from-th on lies on the k-th route of the table and
\* on no other route of the table.
OnlyOnRouteSince(k, from) ==
    \A n \in from..Len(input.updates) :
        \A j \in 1..Len(input.routes) : OnRoute(input.updates[n], input.routes[j]) <=> j = k

\* A call in which every collaborator call succeeds.
Succeeds == output.fn = "guess" /\ output.fail = "none"

\* C13 as stated: when the 5 most recent samples of the history lie on an
\* enabled, active route A and on no other route, GuessRouteForVehicle
\* returns A, whatever the samples before them.
C13_LastFiveDecide ==
    Succeeds =>
        \A k \in 1..Len(input.routes) :
            (/\ InService(input.routes[k])
             /\ Len(input.updates) >= MinUpdates
             /\ OnlyOnRouteSince(k, Len(input.updates) - MinUpdates + 1))
                => output.ret = [route |-> input.routes[k].ID, err |-> FALSE]

\* C13: when the history holds at least 5 samples and every sample of it
\* lies on an enabled, active route A and on no other route, the call
\* returns A.
C13_AllSamplesDecide ==
    Succeeds =>
        \A k \in 1..Len(input.routes) :
            (/\ InService(input.routes[k])
             /\ Len(input.updates) >= MinUpdates
             /\ OnlyOnRouteSince(k, 1))
                => output.ret = [route |-> input.routes[k].ID, err |-> FALSE]

\* Route A is returned for a history of more than 5 samples, all of them on
\* A, from a table that holds another route.
C13_Witness ==
    /\ Succeeds
    /\ Returned
    /\ Len(input.routes) > 1
    /\ Len(input.updates) > MinUpdates
    /\ \E k \in 1..Len(input.routes) :
          /\ input.routes[k].ID = output.ret.route
          /\ OnlyOnRouteSince(k, 1)

\* The accumulated distances of the call's routes over the call's history.
Sums == RouteDistances(input.routes, input.updates)

\* The average of that accumulated distance is above 5.
AboveAmbiguity(sum) == Less(AmbiguityThreshold * Len(input.updates), sum)

\* A call that reaches the selection loop: Routes() and LocationsSince()
\* succeed and the history holds at least 5 samples.
Selects ==
    /\ output.fn = "guess"
    /\ output.fail \notin {"routes", "since"}
    /\ Len(input.updates) >= MinUpdates

\* C14: whenever the smallest average distance over the routes is above 5,
\* that is the average of every route is, GuessRouteForVehicle returns no
\* route and no error, in whatever order the routes are iterated.
C14_AmbiguousIsNoRoute ==
    (Selects /\ \A id \in DOMAIN Sums : AboveAmbiguity(Sums[id])) => ReturnedNothing

\* Nothing is returned from a table of two routes in service whose finite
\* averages differ and are both above 5, the nearer one iterated last.
C14_Witness ==
    /\ Selects
    /\ ReturnedNothing
    /\ Len(output.order) = 2
    /\ \A id \in DOMAIN Sums : Sums[id] # Inf /\ AboveAmbiguity(Sums[id])
    /\ Less(Sums[output.order[2]], Sums[output.order[1]])

(***************************************************************************)
(* Properties of itrakTimeDate                                             *)
(***************************************************************************)
\* The digits of the call's time field and of its date field.
TimeDigitsOf == Suffix(input.time, Len(TimeLabel))
DateDigitsOf == Suffix(input.date, Len(DateLabel))

\* The date field is a calendar date written MMDDYYYY.
IsMMDDYYYY(d) ==
    /\ Len(d) = 8
    /\ AllDigits(d)
    /\ LET month == Atoi(Prefix(d, 2))
           day   == Atoi(Prefix(Suffix(d, 2), 2))
           year  == Atoi(Suffix(d, 4))
       IN  month \in 1..12 /\ day \in 1..DaysIn(month, year)

\* The instant a date MMDDYYYY and a clock reading of up to six digits,
\* read as the number HHMMSS, stand for.
InstantOf(d, clock) ==
    <<DayNumber(Atoi(Suffix(d, 4)), Atoi(Prefix(d, 2)), Atoi(Prefix(Suffix(d, 2), 2))),
      (clock \div 10000) * 3600 + ((clock \div 100) % 100) * 60 + (clock % 100)>>

\* C15: for a time field of 1 to 6 digits the string handed to the parser
\* has 11 characters, begins with "time:", ends with the digits of the
\* field and has only zeros in between, and when the parse succeeds its
\* value is the date's day at the clock reading HHMMSS those digits stand
\* for; time:0 with date:01022006 is 2006-01-02 00:00:00; a time field of
\* more than 11 characters, or a date field that is not a date written
\* MMDDYYYY, yields an error.
C15_PaddedTime ==
    output.fn = "time" =>
        LET digits == TimeDigitsOf
            n == Len(digits)
        IN  /\ n <= 6 =>
                /\ Len(output.padded) = 11
                /\ Prefix(output.padded, 5) = TimeLabel
                /\ Suffix(output.padded, 11 - n) = digits
                /\ \A k \in 6..(11 - n) : output.padded[k] = "0"
                /\ output.ret.ok => output.ret.t = InstantOf(DateDigitsOf, Atoi(digits))
            /\ (digits = <<"0">> /\ DateDigitsOf = Jan2) =>
                   output.ret = [ok |-> TRUE, t |-> <<DayNumber(2006, 1, 2), 0>>]
            /\ (Len(input.time) > 11 \/ ~IsMMDDYYYY(DateDigitsOf)) => ~output.ret.ok

\* A three-digit time field is padded and parsed to 00:02:06 of the day.
C15_Witness ==
    /\ output.fn = "time"
    /\ TimeDigitsOf = <<"2", "0", "6">>
    /\ DateDigitsOf = Mar4
    /\ output.padded = TimeLabel \o <<"0", "0", "0", "2", "0", "6">>
    /\ output.ret = [ok |-> TRUE, t |-> <<DayNumber(2006, 3, 4), 126>>]

(***************************************************************************)
(* Properties of the split of the payload                                  *)
(***************************************************************************)
\* The positions of the terminators in a payload.
EofPositions(body) == { k \in 1..Len(body) : body[k] = Eof }

\* The position of the j-th terminator; 0 for j = 0.
EofPosition(body, j) ==
    IF j = 0 THEN 0
    ELSE CHOOSE k \in EofPositions(body) :
             Cardinality({ p \in EofPositions(body) : p <= k }) = j

\* What stands between the (j-1)-th terminator and the j-th.
Element(body, j) == SubSeq(body, EofPosition(body, j - 1) + 1, EofPosition(body, j) - 1)

\* What stands after the last terminator.
AfterLast(body) ==
    SubSeq(body, EofPosition(body, Cardinality(EofPositions(body))) + 1, Len(body))

\* The Location comes from that element: its tracker id is the one the
\* pattern captures first in it.
StoredFrom(location, element) ==
    \E k \in 1..Len(element) :
        /\ element[k].kind = "rec"
        /\ \A j \in 1..(k - 1) : element[j].kind # "rec"
        /\ element[k].id = VehicleLabel \o location.TrackerID

\* C16: the records handed to the goroutines of a cycle are, in order, what
\* stands before each terminator of the payload, one for each terminator:
\* what stands after the last terminator is handed to none.  A payload
\* without terminator, the empty one included, starts no goroutine and
\* stores no Location, and every stored Location comes from an element
\* that ends with a terminator.
C16_AllButLastElement ==
    LET body == dfresp.Body
        count == Cardinality(EofPositions(body))
    IN  /\ \A i \in DOMAIN tasks : i <= count /\ tasks[i].data = Element(body, i)
        /\ pc \in {"wait", "prune"} => Len(tasks) = count
        /\ \A n \in DOMAIN locations :
              \E j \in 1..count : StoredFrom(locations[n], Element(body, j))
        /\ count = 0 => tasks = << >> /\ locations = << >>

\* The cycle has ended on a payload whose last record has no terminator
\* after it: the record before it is stored, that one is not.
C16_Witness ==
    /\ pc = "idle"
    /\ pruned = 1
    /\ Len(locations) = 1
    /\ AfterLast(dfresp.Body) = << RecC >>
    /\ locations[1].TrackerID = <<"1">>

(***************************************************************************)
(* Properties of the handling of one record                                *)
(***************************************************************************)
\* The tracker id the record of a goroutine carries.
TrackerIDOf(task) == StripLabel(Result(task.data).id, VehicleLabel)

\* A vehicle is registered with that tracker id.
Registered(id) == \E v \in Vehicles : v.TrackerID = id

\* Goroutine i takes the step: it is the only one whose state changes.
StepOf(i) ==
    /\ i \in DOMAIN tasks /\ i \in DOMAIN tasks'
    /\ Len(tasks') = Len(tasks)
    /\ tasks'[i] # tasks[i]

\* Goroutine i returns in this step and nothing else happens: no Location
\* is stored or deleted, no other goroutine moves, the process lives on and
\* the barrier is told.
ReturnsQuietly(i) ==
    /\ tasks'[i].pc = "done"
    /\ locations' = locations
    /\ \A j \in DOMAIN tasks : j # i => tasks'[j] = tasks[j]
    /\ crashed' = crashed
    /\ wg' = wg - 1
    /\ pc' = pc

\* C17: the goroutine of a record whose tracker id is not registered
\* returns in its first step, the lookup, without a further collaborator
\* call: no Location is stored, the other goroutines are left as they
\* are; no stored Location carries a tracker id that is not registered, and
\* only such records end as unknown vehicles.
C17_UnknownVehicleSkipped ==
    /\ [](\A n \in DOMAIN locations : Registered(locations[n].TrackerID))
    /\ [](\A i \in DOMAIN tasks :
             tasks[i].outcome = "unknown vehicle" => ~Registered(TrackerIDOf(tasks[i])))
    /\ [][ \A i \in DOMAIN tasks :
              (/\ StepOf(i)
               /\ tasks[i].pc = "start"
               /\ FindAllStringSubmatch(tasks[i].data) # << >>
               /\ ~Registered(TrackerIDOf(tasks[i])))
                  => /\ ReturnsQuietly(i)
                     /\ tasks'[i].outcome \in {"unknown vehicle", "vehicle error"}
         ]_vars

\* Both goroutines of a payload have returned: the record of the unknown
\* tracker was skipped and the record after it was stored.
C17_Witness ==
    /\ pc = "prune"
    /\ Len(tasks) = 2
    /\ tasks[1].outcome = "unknown vehicle"
    /\ tasks[2].outcome = "stored"
    /\ \E n \in DOMAIN locations : locations[n].TrackerID = TrackerIDOf(tasks[2])

\* The outcomes of a record that end on a collaborator's error.
ErrorOutcomes == {"vehicle error", "latest error", "guess error", "create error"}

\* The goroutines of the cycle that have not returned.
Unreturned == { i \in DOMAIN tasks : tasks[i].pc # "done" }

\* What GuessRouteForVehicle returns to goroutine i when the named call
\* fails and the map is iterated in that order.
GuessOf(i, order, fail) ==
    GuessRouteForVehicle(Routes,
                         IF fail = "since" THEN << >>
                         ELSE LocationsSince(locations, tasks[i].vehicleID,
                                             AddSeconds(Now, GuessWindow)),
                         order, fail)

\* C18: a goroutine that ends on the error of a collaborator call returns
\* in that step and nothing else happens: no Location is stored, the other
\* goroutines are left as they are; a goroutine that has returned never
\* moves again; the barrier counts exactly the goroutines that have not
\* returned, so the cycle goes on to prune once all have.  For a goroutine
\* about to guess, GuessRouteForVehicle returns an error when Routes() or
\* LocationsSince() fails and when Route() is called and fails, and none
\* when no call fails.
C18_StorageErrorSkipsRecord ==
    /\ [](~crashed => wg = Cardinality(Unreturned))
    /\ [](\A i \in DOMAIN tasks :
             tasks[i].pc = "guess" =>
                 \A order \in Orders(RouteIDs) :
                     /\ GuessOf(i, order, "routes").err
                     /\ GuessOf(i, order, "since").err
                     /\ ~GuessOf(i, order, "none").err
                     /\ GuessOf(i, order, "none").route # NoRouteID
                            => GuessOf(i, order, "route").err)
    /\ [][ \A i \in DOMAIN tasks :
              /\ (StepOf(i) /\ tasks'[i].outcome \in ErrorOutcomes) => ReturnsQuietly(i)
              /\ (tasks[i].pc = "done" /\ Len(tasks') = Len(tasks)) => tasks'[i] = tasks[i]
         ]_vars

\* Both goroutines of a payload have returned on a store that holds the
\* history of vehicle 1: the guess for vehicle 1 ended on an error, the
\* record of vehicle 2 was stored, and the cycle is about to prune.
C18_Witness ==
    /\ pc = "prune"
    /\ wg = 0
    /\ Len(tasks) = 2
    /\ tasks[1].outcome = "guess error"
    /\ tasks[2].outcome = "stored"
    /\ Len(locations) = Len(History) + 1
    /\ locations[Len(locations)].TrackerID = TrackerIDOf(tasks[2])

\* The routes whose accumulated distance no other route's is less than.
Nearest == { id \in DOMAIN Sums : \A other \in DOMAIN Sums : ~Less(Sums[other], Sums[id]) }

\* Where the iteration order of the call has that route.
PositionOf(id) == CHOOSE k \in DOMAIN output.order : output.order[k] = id

\* Two routes or more share the smallest average, which is finite and not
\* above 5, in a call in which every collaborator call succeeds.
Tied ==
    /\ Selects
    /\ Succeeds
    /\ Cardinality(Nearest) >= 2
    /\ \A id \in Nearest : Sums[id] # Inf /\ ~AboveAmbiguity(Sums[id])

\* C19 as stated: of the routes that share the smallest average, the one
\* the iteration encounters last is returned.
C19_LastOfTiedWins ==
    Tied => /\ output.ret.route \in Nearest
            /\ \A id \in Nearest : PositionOf(id) <= PositionOf(output.ret.route)

\* C19: of the routes that share the smallest average, the one the
\* iteration encounters first is returned.
C19_FirstOfTiedWins ==
    Tied => /\ output.ret.route \in Nearest
            /\ ~output.ret.err
            /\ \A id \in Nearest : PositionOf(id) >= PositionOf(output.ret.route)

\* Two routes on the same polyline share the smallest average and the one
\* with the greater ID, iterated first, is returned.
C19_Witness ==
    /\ Tied
    /\ Returned
    /\ output.ret.route = output.order[1]
    /\ \E id \in Nearest : id < output.ret.route

\* The distance from a sample to the nearest point of a route; infinite
\* for a route without points.
NearestPoint(update, route) ==
    IF route.Points = << >> THEN Inf
    ELSE LET distances == { Distance(update, route.Points[i]) : i \in DOMAIN route.Points }
         IN  CHOOSE d \in distances : \A e \in distances : d <= e

\* The sum, over the samples from the k-th on, of the nearest-point
\* distance, plus 50 for each sample farther than 0.003 degree.
RECURSIVE PenaltyAdjusted(_, _)
PenaltyAdjusted(route, k) ==
    IF k > Len(input.updates) THEN 0
    ELSE LET d == NearestPoint(input.updates[k], route)
         IN  Plus(IF d = Inf \/ d > ProximityThreshold THEN Plus(d, Penalty) ELSE d,
                  PenaltyAdjusted(route, k + 1))

\* The routes of the call's table whose penalty-adjusted sum, and so whose
\* average, is strictly less than that of the returned route.
Nearer(routes) ==
    { r \in routes : Less(PenaltyAdjusted(r, 1),
                          PenaltyAdjusted(RouteIn(input.routes, output.ret.route), 1)) }

TableRoutes == { input.routes[k] : k \in 1..Len(input.routes) }

\* C20 as stated: no route of the table has an average penalty-adjusted
\* distance strictly less than that of the returned route.
C20_MinimumOverAllRoutes ==
    (Selects /\ Returned) => Nearer(TableRoutes) = {}

\* C20: no enabled, active route of the table has an average
\* penalty-adjusted distance strictly less than that of the returned
\* route, in whatever order the routes are iterated.
C20_MinimumOverRoutesInService ==
    (Selects /\ Returned) => Nearer({ r \in TableRoutes : InService(r) }) = {}

\* The route returned is the second in iteration order, after a route in
\* service whose finite average is greater.
C20_Witness ==
    /\ Selects
    /\ Returned
    /\ Len(output.order) >= 2
    /\ output.ret.route = output.order[2]
    /\ InService(RouteIn(input.routes, output.order[1]))
    /\ Sums[output.order[1]] # Inf
    /\ Less(PenaltyAdjusted(RouteIn(input.routes, output.order[2]), 1),
            PenaltyAdjusted(RouteIn(input.routes, output.order[1]), 1))

(***************************************************************************)
(* Properties of the route reference of a stored Location                  *)
(***************************************************************************)
\* C21: the route a goroutine carries from its guess to its store is what
\* GuessRouteForVehicle returns, without error, on the Locations stored
\* when the guess is made, for some iteration order; it does not change
\* afterwards; the Location the goroutine stores is appended to the store
\* and carries that route: the route's ID when one was returned, no route
\* when none was; a step that stores is the step of a goroutine that has
\* guessed.
C21_RouteReferenceIsTheGuess ==
    [][ /\ \A i \in DOMAIN tasks :
              /\ (StepOf(i) /\ tasks[i].pc = "guess" /\ tasks'[i].pc = "create")
                    => /\ locations' = locations
                       /\ \E order \in Orders(RouteIDs) :
                             /\ ~GuessOf(i, order, "none").err
                             /\ tasks'[i].route = GuessOf(i, order, "none").route
              /\ (StepOf(i) /\ tasks[i].pc = "create")
                    => /\ tasks'[i].route = tasks[i].route
                       /\ tasks'[i].outcome = "stored"
                             => /\ Len(locations') = Len(locations) + 1
                                /\ SubSeq(locations', 1, Len(locations)) = locations
                                /\ locations'[Len(locations')].RouteID = tasks[i].route
                                /\ locations'[Len(locations')].TrackerID
                                       = TrackerIDOf(tasks[i])
                                /\ locations'[Len(locations')].Time = tasks[i].newTime
        /\ Len(locations') > Len(locations)
              => \E i \in DOMAIN tasks :
                    StepOf(i) /\ tasks[i].pc = "create" /\ tasks'[i].outcome = "stored"
      ]_vars

\* A record of vehicle 1 on route 1 was stored without a route after a
\* history off every route, and a record of vehicle 2, without history,
\* was stored without a route too.
AbstainedOffRoute ==
    /\ Len(locations) = Len(HistoryOff) + 2
    /\ SubSeq(locations, 1, Len(HistoryOff)) = HistoryOff
    /\ \A n \in (Len(HistoryOff) + 1)..Len(locations) : locations[n].RouteID = NoRouteID
    /\ \E n \in (Len(HistoryOff) + 1)..Len(locations) :
          /\ locations[n].TrackerID = <<"1">>
          /\ OnRoute(locations[n], Routes[1])

\* After the history on route 1, a record of vehicle 1 was stored with
\* route 1 and a record of vehicle 2 without a route.
C21_Witness ==
    /\ Len(locations) = Len(History) + 2
    /\ SubSeq(locations, 1, Len(History)) = History
    /\ \E n, m \in (Len(History) + 1)..Len(locations) :
          /\ locations[n].TrackerID = <<"1">> /\ locations[n].RouteID = 1
          /\ locations[m].TrackerID = <<"2">> /\ locations[m].RouteID = NoRouteID

(***************************************************************************)
(* Properties of the fan-out                                               *)
(***************************************************************************)
\* How far a goroutine has come in handleVehicleData.
Progress(task) ==
    CASE task.pc = "start"  -> 1
      [] task.pc = "latest" -> 2
      [] task.pc = "guess"  -> 3
      [] task.pc = "create" -> 4
      [] OTHER              -> 5

\* C22: the fan-out starts one goroutine for each record of the payload
\* that ends with a terminator, the j-th goroutine on the j-th record, and
\* tells the barrier of each, also when there is one record only; a
\* goroutine keeps its record, moves only forward through the handler and
\* so handles its record once; when the barrier lets the cycle go on to
\* prune, every goroutine has returned.
C22_OneGoroutinePerRecord ==
    /\ []((pc = "prune" /\ ~crashed) =>
             \A i \in DOMAIN tasks : tasks[i].pc = "done" /\ tasks[i].outcome # "running")
    /\ [][ /\ (pc = "spawn" /\ pc' = "wait") =>
                LET count == Cardinality(EofPositions(dfresp.Body))
                IN  /\ Len(tasks') = Len(tasks) + count
                    /\ wg' = wg + count
                    /\ \A i \in DOMAIN tasks : tasks'[i] = tasks[i]
                    /\ \A j \in 1..count :
                          /\ tasks'[Len(tasks) + j].data = Element(dfresp.Body, j)
                          /\ tasks'[Len(tasks) + j].pc = "start"
           /\ \A i \in DOMAIN tasks :
                 (i \in DOMAIN tasks' /\ Len(tasks') = Len(tasks)) =>
                     /\ tasks'[i].data = tasks[i].data
                     /\ Progress(tasks'[i]) >= Progress(tasks[i])
                     /\ tasks'[i] # tasks[i] => Progress(tasks'[i]) > Progress(tasks[i])
           /\ pc # "spawn" => Len(tasks') <= Len(tasks)
         ]_vars

\* The cycle on a payload of exactly one record: its one goroutine has
\* stored the record and the cycle is about to prune.
C22_Witness ==
    /\ pc = "prune"
    /\ Cardinality(EofPositions(dfresp.Body)) = 1
    /\ Len(tasks) = 1
    /\ tasks[1].data = << RecA >>
    /\ tasks[1].outcome = "stored"
    /\ Len(locations) = 1

\* The cycle on a payload of two records of different vehicles: each
\* goroutine has stored its own record.
StoredBoth ==
    /\ pc = "prune"
    /\ Len(tasks) = 2
    /\ tasks[1].data # tasks[2].data
    /\ tasks[1].outcome = "stored" /\ tasks[2].outcome = "stored"
    /\ { locations[n].TrackerID : n \in DOMAIN locations } = { <<"1">>, <<"2">> }

=============================================================================
